---- MODULE Spec2Model ----
(***************************************************************************)
(* Wallet balance / airdrop service (src/be/index.js) and the natural-     *)
(* language balance endpoint (second half of                               *)
(* src/fe/src/components/WalletChat.jsx).                                  *)
(*                                                                         *)
(* Each request handler is an async function: it runs atomically between   *)
(* two awaits.  One action of the model is therefore "the awaited remote   *)
(* call (or timer) completes, and the handler runs up to its next await".  *)
(* Strings that the code inspects character by character (addresses) are   *)
(* sequences of character codes.                                           *)
(***************************************************************************)
EXTENDS Integers, Sequences, FiniteSets

VARIABLES
    req,    \* per request: the handler's locals and its position (pc)
    log,    \* per request: the remote calls / timers it issued and their outcomes, in order
    resp,   \* per request: the HTTP responses sent so far, in order
    last,   \* per request: what the remote getBalance answered last (value or error),
            \* and every balance it has returned
    vstr,   \* Address Validator on its own: the string it is applied to
    vres,   \* Address Validator on its own: "idle", then "true" or "false"
    ui      \* chat widget: messages, inputValue, isLoading and where handleSubmit is

vars == <<req, log, resp, last, vstr, vres, ui>>

(***************************************************************************)
(* Bounds of the model.                                                    *)
(***************************************************************************)
\* remote balances are multiples of half a SOL, 0..MaxBalanceSteps halves
MaxBalanceSteps == 2
\* the Address Validator is applied to strings of every length 0..MaxStrLen
MaxStrLen == 46

\* submissions the chat widget handles
MaxSubmits == 2

(***************************************************************************)
(* Program constants.                                                      *)
(***************************************************************************)
LAMPORTS_PER_SOL == 1000000000
maxRetries == 5
RetryDelayMs == 1000
GraceDelayMs == 2000
MinAddrLen == 32
MaxAddrLen == 44
PUBLIC_KEY_LENGTH == 32

(***************************************************************************)
(* Character strings as sequences of character codes.                      *)
(***************************************************************************)
Rep(c, n) == [i \in 1..n |-> c]

NoneStr == <<110, 111, 110, 101>>   \* 'none'

RECURSIVE DecimalDigits(_)
DecimalDigits(n) ==
    IF n < 10 THEN <<48 + n>> ELSE Append(DecimalDigits(n \div 10), 48 + (n % 10))

\* A request value as JSON delivers it: undefined, a string or a number.
Undefined == [t |-> "undefined", s |-> <<>>, n |-> 0]
Str(s) == [t |-> "string", s |-> s, n |-> 0]
Num(n) == [t |-> "number", s |-> <<>>, n |-> n]

\* String(v): what RegExp.prototype.test coerces its argument to.
StringOf(v) ==
    CASE v.t = "string" -> v.s
      [] v.t = "number" -> DecimalDigits(v.n)
      [] OTHER -> <<117, 110, 100, 101, 102, 105, 110, 101, 100>>

\* faulty variant: only an absent value counts (v === undefined)
FalsyUndefinedOnly(v) == v.t = "undefined"

\* !v
Falsy(v) ==
    \/ v.t = "undefined"
    \/ v.t = "string" /\ v.s = <<>>
    \/ v.t = "number" /\ v.n = 0

(***************************************************************************)
(* Address Validator: /^[1-9A-HJ-NP-Za-km-z]{32,44}$/.test(str)            *)
(***************************************************************************)
\* faulty variant: the letter ranges taken whole (I, O and l slip in)
Base58ClassLoose(c) ==
    \/ c >= 49 /\ c <= 57
    \/ c >= 65 /\ c <= 90
    \/ c >= 97 /\ c <= 122

\* the character class [1-9A-HJ-NP-Za-km-z]
Base58Class(c) ==
    \/ c >= 49 /\ c <= 57      \* 1-9
    \/ c >= 65 /\ c <= 72      \* A-H
    \/ c >= 74 /\ c <= 78      \* J-N
    \/ c >= 80 /\ c <= 90      \* P-Z
    \/ c >= 97 /\ c <= 107     \* a-k
    \/ c >= 109 /\ c <= 122    \* m-z

\* greedy {_,max}: how many class characters are consumed from position i on
RECURSIVE ClassRun(_, _, _, _)
ClassRun(s, i, n, max) ==
    IF i <= Len(s) /\ n < max /\ Base58Class(s[i])
    THEN ClassRun(s, i + 1, n + 1, max)
    ELSE n

\* ^ class{32,44} $ : the run starts at the first character, is long enough,
\* and the end of the input follows it
RegexTest(s) ==
    LET n == ClassRun(s, 1, 0, MaxAddrLen)
    IN  n >= MinAddrLen /\ n = Len(s)

\* faulty variant: every string passes
isPotentiallySolanaAddressAny(str) == TRUE

isPotentiallySolanaAddress(str) == RegexTest(StringOf(str))

(***************************************************************************)
(* new PublicKey(value) of @solana/web3.js: a string is base-58 decoded    *)
(* (bs58) and must give exactly 32 bytes; a number becomes a big number    *)
(* of at most 32 bytes.                                                    *)
(***************************************************************************)
ALPHABET ==
    << 49, 50, 51, 52, 53, 54, 55, 56, 57,
       65, 66, 67, 68, 69, 70, 71, 72, 74, 75, 76, 77, 78,
       80, 81, 82, 83, 84, 85, 86, 87, 88, 89, 90,
       97, 98, 99, 100, 101, 102, 103, 104, 105, 106, 107,
       109, 110, 111, 112, 113, 114, 115, 116, 117, 118, 119, 120, 121, 122 >>

\* BASE_MAP[c]: the digit of character c, 255 when c is not in the alphabet
BaseMap(c) ==
    IF \E d \in 1..Len(ALPHABET) : ALPHABET[d] = c
    THEN (CHOOSE d \in 1..Len(ALPHABET) : ALPHABET[d] = c) - 1
    ELSE 255

\* digits := digits * mul + carry in base `base`, on a little-endian sequence
\* (the inner loop of base-x encode and decode); a = <<digits, index, carry>>
MulAdd(b, i, carry, mul, base) ==
    LET step[a \in Seq(Nat) \X Nat \X Nat] ==
            IF a[2] > Len(a[1])
            THEN IF a[3] = 0 THEN a[1] ELSE step[<<Append(a[1], 0), a[2], a[3]>>]
            ELSE step[<<[a[1] EXCEPT ![a[2]] = (a[3] + mul * a[1][a[2]]) % base],
                        a[2] + 1, (a[3] + mul * a[1][a[2]]) \div base>>]
    IN  step[<<b, i, carry>>]

Reverse(s) ==
    LET rev[a \in Seq(Nat)] == [i \in 1..Len(a) |-> a[Len(a) + 1 - i]]
    IN  rev[s]

\* how many leading elements of s equal c
RECURSIVE Leading(_, _, _)
Leading(s, c, i) ==
    IF i <= Len(s) /\ s[i] = c THEN Leading(s, c, i + 1) ELSE i - 1

\* the characters of s from index i on, pushed into the digits b;
\* a = <<index, digits>>
DecodeFrom(s, i, b) ==
    LET step[a \in Nat \X Seq(Nat)] ==
            IF a[1] > Len(s) THEN a[2]
            ELSE step[<<a[1] + 1,
                        MulAdd(a[2], 1, BaseMap(s[a[1]]), Len(ALPHABET), 256)>>]
    IN  step[<<i, b>>]

\* bs58.decode(s): throws (ok = FALSE) on a character outside the alphabet,
\* else the bytes, big-endian; each leading '1' is a zero byte
Bs58Decode(s) ==
    IF \E i \in 1..Len(s) : BaseMap(s[i]) = 255
    THEN [ok |-> FALSE, bytes |-> <<>>]
    ELSE LET z == Leading(s, ALPHABET[1], 1)
         IN  [ok |-> TRUE,
              bytes |-> Rep(0, z) \o Reverse(DecodeFrom(s, z + 1, <<>>))]

EncodeFrom(bytes, i, d) ==
    LET step[a \in Nat \X Seq(Nat)] ==
            IF a[1] > Len(bytes) THEN a[2]
            ELSE step[<<a[1] + 1,
                        MulAdd(a[2], 1, bytes[a[1]], 256, Len(ALPHABET))>>]
    IN  step[<<i, d>>]

\* bs58.encode(bytes)
Bs58Encode(bytes) ==
    LET z == Leading(bytes, 0, 1)
        chars[d \in Seq(Nat)] == [i \in 1..Len(d) |-> ALPHABET[d[i] + 1]]
    IN  Rep(ALPHABET[1], z) \o chars[Reverse(EncodeFrom(bytes, z + 1, <<>>))]

\* new BN(n).toArrayLike(Buffer, 'be', 32), for a number below 256
NumberBytes(n) == Rep(0, PUBLIC_KEY_LENGTH - 1) \o <<n>>

\* new PublicKey(value): ok = FALSE when the constructor throws (message says
\* why), else the key's 32 bytes
PublicKey(v) ==
    CASE v.t = "string" ->
            LET d == Bs58Decode(v.s)
            IN  IF ~d.ok
                THEN [ok |-> FALSE, bytes |-> <<>>, message |-> <<"Non-base58 character">>]
                ELSE IF Len(d.bytes) # PUBLIC_KEY_LENGTH
                THEN [ok |-> FALSE, bytes |-> <<>>, message |-> <<"Invalid public key input">>]
                ELSE [ok |-> TRUE, bytes |-> d.bytes, message |-> <<>>]
      [] v.t = "number" ->
            [ok |-> TRUE, bytes |-> NumberBytes(v.n), message |-> <<>>]
      [] OTHER ->
            [ok |-> FALSE, bytes |-> <<>>, message |-> <<"Invalid public key input">>]

\* publicKey.toString()
PublicKeyToString(bytes) == Bs58Encode(bytes)

(***************************************************************************)
(* Values exchanged with the remote services.                              *)
(***************************************************************************)
Reqs == {"r1"}

\* what connection.getBalance may resolve to (lamports)
Balances == {k * (LAMPORTS_PER_SOL \div 2) : k \in 0..MaxBalanceSteps}

\* what a remote call may reject with: an Error and its message
RemoteErrors == {[message |-> <<"fetch failed">>], [message |-> <<"429 Too Many Requests">>]}

NoError == [message |-> <<>>]

Signatures == {"sig1", "sig2"}

\* confirmation.value.err: null, or a transaction-level error
NullErr == "null"
TxErrs == {"AccountInUse", "InsufficientFundsForFee"}

\* JSON.stringify of a string value: the value in double quotes
JSONstringify(v) == "\"" \o v \o "\""

\* lamports / 1e9 as the exact decimal: sign, whole part, nine decimals
Quotient(lamports, unit) ==
    LET a == IF lamports < 0 THEN 0 - lamports ELSE lamports
    IN  [neg |-> lamports < 0, whole |-> a \div unit, nanos |-> a % unit]

\* faulty variant: integer division, the fraction is lost
lamportsToSolWhole(lamports) ==
    [neg |-> lamports < 0,
     whole |-> (IF lamports < 0 THEN 0 - lamports ELSE lamports) \div LAMPORTS_PER_SOL,
     nanos |-> 0]

lamportsToSol(lamports) == Quotient(lamports, LAMPORTS_PER_SOL)

(***************************************************************************)
(* Log entries: remote calls, timers and their outcomes.                   *)
(***************************************************************************)
Ev(name) == [ev |-> name, ms |-> 0]
SetTimeout(ms) == [ev |-> "setTimeout", ms |-> ms]
Timeout(ms) == [ev |-> "timeout", ms |-> ms]

(***************************************************************************)
(* A request: the handler's locals.                                        *)
(***************************************************************************)
NoParsed == [action |-> "", publicKey |-> <<>>, needsAddress |-> ""]

FreshReq ==
    [kind |-> "none", pc |-> "idle", site |-> "none",
     publicKey |-> Undefined, amount |-> Undefined, query |-> Undefined,
     address |-> <<>>, lamports |-> 0, i |-> 0,
     initialBalance |-> 0, newBalance |-> 0, signature |-> "",
     confirmationErr |-> NullErr, parsedResponse |-> NoParsed, error |-> NoError]

\* nothing answered yet; `reads` collects the balances the remote returned
NoAnswer == [ok |-> FALSE, val |-> 0, err |-> NoError, reads |-> <<>>]

\* The result of running a handler up to its next await (or to its end):
\* the new locals, the log entries added, the responses sent.
Step(q, evs, out) == [q |-> q, ev |-> evs, out |-> out]

\* res.status(code).json(body); the handler ends
Respond(q, evs, code, body) ==
    Step([q EXCEPT !.pc = "done"], evs, <<[code |-> code, body |-> body]>>)

\* faulty variant: the loop counter i is one variable shared by all requests
ApplySharedCounter(r, st) ==
    /\ req' = [x \in DOMAIN req |->
                    IF x = r THEN st.q ELSE [req[x] EXCEPT !.i = st.q.i]]
    /\ log' = [log EXCEPT ![r] = @ \o st.ev]
    /\ resp' = [resp EXCEPT ![r] = @ \o st.out]

Apply(r, st) ==
    /\ req' = [req EXCEPT ![r] = st.q]
    /\ log' = [log EXCEPT ![r] = @ \o st.ev]
    /\ resp' = [resp EXCEPT ![r] = @ \o st.out]

(***************************************************************************)
(* getBalanceWithRetry(publicKey, maxRetries = 5)                          *)
(***************************************************************************)
\* for (let i = 0; i < maxRetries; i++)
LoopContinues(i) == i < maxRetries

\* faulty variant: the last attempt is not recognised
IsLastAttemptNever(i) == FALSE

\* if (i === maxRetries - 1) throw error;
IsLastAttempt(i) == i = maxRetries - 1

\* entry of getBalanceWithRetry from call site `site`: i = 0 and the first
\* connection.getBalance is issued
EnterGetBalanceWithRetry(q, site, evs) ==
    Step([q EXCEPT !.pc = "getBalance", !.site = site, !.i = 0],
         evs \o <<Ev("getBalanceWithRetry"), Ev("getBalance")>>, <<>>)

(***************************************************************************)
(* GET /api/wallet/balance/:publicKey                                      *)
(***************************************************************************)
BalanceFailed(q, evs, e) ==
    Respond([q EXCEPT !.error = e], evs, 500,
            [error |-> "Failed to fetch balance", details |-> e.message])

BalanceFetched(q, evs, balance) ==
    Respond(q, evs, 200,
            [publicKey |-> PublicKeyToString(q.address),
             balanceInLamports |-> balance,
             balanceInSOL |-> lamportsToSol(balance),
             message |-> "Balance fetched successfully"])

ReceiveBalance(r, pk) ==
    /\ req[r].pc = "idle"
    /\ LET q == [req[r] EXCEPT !.kind = "balance", !.publicKey = pk]
           k == PublicKey(pk)
       IN  Apply(r, IF ~k.ok
                    THEN BalanceFailed(q, <<>>, [message |-> k.message])
                    ELSE EnterGetBalanceWithRetry([q EXCEPT !.address = k.bytes],
                                                  "balance", <<>>))
    /\ UNCHANGED <<last, vstr, vres, ui>>

(***************************************************************************)
(* POST /api/wallet/airdrop                                                *)
(***************************************************************************)
\* faulty variant: the error response leaks what was gathered so far
AirdropFailedPartial(q, evs, e) ==
    Respond([q EXCEPT !.error = e], evs, 500,
            [error |-> "Airdrop failed", details |-> e.message,
             signature |-> q.signature,
             initialBalanceSOL |-> lamportsToSol(q.initialBalance)])

\* outer catch: res.status(500).json({error: 'Airdrop failed', details})
AirdropFailed(q, evs, e) ==
    Respond([q EXCEPT !.error = e], evs, 500,
            [error |-> "Airdrop failed", details |-> e.message])

MissingParameters(q) ==
    Respond(q, <<>>, 400,
            [error |-> "Missing required parameters",
             details |-> <<"Both publicKey and amount are required">>])

ReceiveAirdrop(r, pk, amount) ==
    /\ req[r].pc = "idle"
    /\ LET q == [req[r] EXCEPT !.kind = "airdrop", !.publicKey = pk, !.amount = amount]
           k == PublicKey(pk)
       IN  Apply(r, IF Falsy(pk) \/ Falsy(amount)
                    THEN MissingParameters(q)
                    ELSE IF ~k.ok
                    THEN AirdropFailed(q, <<>>, [message |-> k.message])
                    ELSE EnterGetBalanceWithRetry(
                            [q EXCEPT !.address = k.bytes,
                                      !.lamports = amount.n * LAMPORTS_PER_SOL],
                            "initial", <<>>))
    /\ UNCHANGED <<last, vstr, vres, ui>>

\* const initialBalance = await getBalanceWithRetry(address);
\* then connection.requestAirdrop(address, lamports) is issued
AfterInitialBalance(q, evs, balance) ==
    Step([q EXCEPT !.initialBalance = balance, !.pc = "requestAirdrop"],
         evs \o <<Ev("requestAirdrop")>>, <<>>)

\* the airdrop is submitted: signature obtained, confirmTransaction issued
RequestAirdropResolves(r, sig) ==
    /\ req[r].pc = "requestAirdrop"
    /\ Apply(r, Step([req[r] EXCEPT !.signature = sig, !.pc = "confirmTransaction"],
                     <<Ev("requestAirdrop:ok"), Ev("confirmTransaction")>>, <<>>))
    /\ UNCHANGED <<last, vstr, vres, ui>>

RequestAirdropRejects(r, e) ==
    /\ req[r].pc = "requestAirdrop"
    /\ Apply(r, AirdropFailed(req[r], <<Ev("requestAirdrop:err")>>, e))
    /\ UNCHANGED <<last, vstr, vres, ui>>

\* faulty variant: the transaction-level error is not looked at
HasTxErrNever(err) == FALSE

\* if (confirmation.value.err)
HasTxErr(err) == err # NullErr

\* new Error('Transaction failed: ' + JSON.stringify(confirmation.value.err))
TransactionFailed(err) == [message |-> <<"Transaction failed: ", JSONstringify(err)>>]

\* inner catch: new Error('Transaction confirmation failed: ' + error.message)
ConfirmationFailed(e) == [message |-> <<"Transaction confirmation failed: ">> \o e.message]

\* faulty variant: the balance is re-fetched without the grace wait
AfterConfirmedNoWait(q, evs) ==
    EnterGetBalanceWithRetry(q, "new", evs)

\* await new Promise(resolve => setTimeout(resolve, 2000));
AfterConfirmed(q, evs) ==
    Step([q EXCEPT !.pc = "graceDelay"], evs \o <<SetTimeout(GraceDelayMs)>>, <<>>)

ConfirmTransactionResolves(r, err) ==
    /\ req[r].pc = "confirmTransaction"
    /\ LET q == [req[r] EXCEPT !.confirmationErr = err]
           evs == <<Ev(IF err = NullErr THEN "confirmTransaction:ok"
                                         ELSE "confirmTransaction:txerr")>>
       IN  Apply(r, IF HasTxErr(err)
                    THEN AirdropFailed(q, evs, ConfirmationFailed(TransactionFailed(err)))
                    ELSE AfterConfirmed(q, evs))
    /\ UNCHANGED <<last, vstr, vres, ui>>

ConfirmTransactionRejects(r, e) ==
    /\ req[r].pc = "confirmTransaction"
    /\ Apply(r, AirdropFailed(req[r], <<Ev("confirmTransaction:err")>>,
                              ConfirmationFailed(e)))
    /\ UNCHANGED <<last, vstr, vres, ui>>

\* the 2 s timer fires: const newBalance = await getBalanceWithRetry(address)
GraceDelayElapses(r) ==
    /\ req[r].pc = "graceDelay"
    /\ Apply(r, EnterGetBalanceWithRetry(req[r], "new", <<Timeout(GraceDelayMs)>>))
    /\ UNCHANGED <<last, vstr, vres, ui>>

\* faulty variant: the requested amount reported as the change
BalanceChangeRequested(newBalance, q) == q.lamports

\* const balanceChange = newBalance - initialBalance;
BalanceChange(newBalance, q) == newBalance - q.initialBalance

AirdropSucceeded(q, evs, balance) ==
    LET n == [q EXCEPT !.newBalance = balance]
    IN  Respond(n, evs, 200,
            [publicKey |-> PublicKeyToString(n.address),
             signature |-> n.signature,
             requestedAmount |-> n.amount.n,
             initialBalanceSOL |-> lamportsToSol(n.initialBalance),
             newBalanceSOL |-> lamportsToSol(n.newBalance),
             actualChangeSOL |-> lamportsToSol(BalanceChange(balance, n)),
             message |-> "Airdrop successful",
             status |-> "confirmed"])

(***************************************************************************)
(* POST /api/natural/balance (handleBalanceQuery)                          *)
(***************************************************************************)
\* What the text-completion capability may answer: a text that the
\* structured parser accepts, with the three string fields it carries, or
\* a text it rejects.
Malformed == [wellFormed |-> FALSE, fields |-> NoParsed]

WellFormed(action, publicKey, needsAddress) ==
    [wellFormed |-> TRUE,
     fields |-> [action |-> action, publicKey |-> publicKey,
                 needsAddress |-> needsAddress]]

\* parser.parse(text): throws (ok = FALSE) unless the text carries the schema
StructuredParse(text) == [ok |-> text.wellFormed, value |-> text.fields]

ParseError == [message |-> <<"Failed to parse. Text: ">>]

\* faulty variant: the 400 is sent without `return`, the handler goes on
MissingQueryNoReturn(q) ==
    Step([q EXCEPT !.pc = "invoke"], <<Ev("invoke")>>,
         <<[code |-> 400,
            body |-> [error |-> "Missing query parameter",
                      message |-> <<"Please provide a natural language query">>]]>>)

MissingQuery(q) ==
    Respond(q, <<>>, 400,
            [error |-> "Missing query parameter",
             message |-> <<"Please provide a natural language query">>])

InvalidAddressFormat(q, evs) ==
    Respond(q, evs, 400,
            [error |-> "Invalid address format",
             message |-> <<"The provided address does not appear to be a valid Solana address">>])

\* faulty variant: an extraction failure answered as an invalid address
ProcessingFailedAsInvalid(q, evs, e) == InvalidAddressFormat(q, evs)

\* outer catch: res.status(500).json({error: 'Processing failed', message})
ProcessingFailed(q, evs, e) ==
    Respond([q EXCEPT !.error = e], evs, 500,
            [error |-> "Processing failed", message |-> e.message])

\* inner catch: res.status(400).json({error: 'Balance fetch failed', message})
NaturalBalanceFailed(q, evs, e) ==
    Respond([q EXCEPT !.error = e], evs, 400,
            [error |-> "Balance fetch failed", message |-> e.message])

NeedsAddress(q, evs) ==
    Respond(q, evs, 200,
            [status |-> "needs_address",
             message |-> <<"Please provide a Solana wallet address to check the balance">>])

\* faulty variant: the answer carries the SOL amount's whole part as lamports
NaturalBalanceFetchedInSol(q, evs, balance) ==
    Respond(q, evs, 200,
            [status |-> "success",
             publicKey |-> PublicKeyToString(q.address),
             balanceInLamports |-> balance \div LAMPORTS_PER_SOL,
             balanceInSOL |-> Quotient(balance, LAMPORTS_PER_SOL),
             message |-> "Balance fetched successfully"])

NaturalBalanceFetched(q, evs, balance) ==
    Respond(q, evs, 200,
            [status |-> "success",
             publicKey |-> PublicKeyToString(q.address),
             balanceInLamports |-> balance,
             balanceInSOL |-> Quotient(balance, LAMPORTS_PER_SOL),
             message |-> "Balance fetched successfully"])

\* faulty variant: needsAddress is ignored
AsksForAddressOnNoneOnly(p) == p.publicKey = NoneStr

\* faulty variant: anything but 'false' counts as asking
AsksForAddressLoosely(p) == p.needsAddress # "false" \/ p.publicKey = NoneStr

\* parsedResponse.needsAddress === 'true' || parsedResponse.publicKey === 'none'
AsksForAddress(p) == p.needsAddress = "true" \/ p.publicKey = NoneStr

\* the handler from the parsed response on
Dispatch(q0, evs, p) ==
    LET q == [q0 EXCEPT !.parsedResponse = p]
        accepted == isPotentiallySolanaAddress(Str(p.publicKey))
        evs2 == evs \o <<Ev(IF accepted THEN "isPotentiallySolanaAddress:true"
                                        ELSE "isPotentiallySolanaAddress:false")>>
        k == PublicKey(Str(p.publicKey))
    IN  IF AsksForAddress(p) THEN NeedsAddress(q, evs)
        ELSE IF ~accepted THEN InvalidAddressFormat(q, evs2)
        ELSE IF ~k.ok THEN NaturalBalanceFailed(q, evs2, [message |-> k.message])
        ELSE EnterGetBalanceWithRetry([q EXCEPT !.address = k.bytes], "natural", evs2)

\* the request arrives; with a query, the prompt is formatted and
\* model.invoke(promptValue) is issued
ReceiveNatural(r, query) ==
    /\ req[r].pc = "idle"
    /\ LET q == [req[r] EXCEPT !.kind = "natural", !.query = query]
       IN  Apply(r, IF Falsy(query)
                    THEN MissingQuery(q)
                    ELSE Step([q EXCEPT !.pc = "invoke"], <<Ev("invoke")>>, <<>>))
    /\ UNCHANGED <<last, vstr, vres, ui>>

\* model.invoke resolves; fixingParser.parse(text) tries parser.parse and,
\* when that throws, submits the text to the model for repair
InvokeResolves(r, text) ==
    /\ req[r].pc = "invoke"
    /\ LET p == StructuredParse(text)
       IN  Apply(r, IF p.ok
                    THEN Dispatch(req[r], <<Ev("invoke:ok"), Ev("parse:ok")>>, p.value)
                    ELSE Step([req[r] EXCEPT !.pc = "fixing"],
                              <<Ev("invoke:ok"), Ev("parse:err"), Ev("fix")>>, <<>>))
    /\ UNCHANGED <<last, vstr, vres, ui>>

InvokeRejects(r, e) ==
    /\ req[r].pc = "invoke"
    /\ Apply(r, ProcessingFailed(req[r], <<Ev("invoke:err")>>, e))
    /\ UNCHANGED <<last, vstr, vres, ui>>

\* the repair call resolves; its text is parsed once more, and a second
\* parse failure is thrown to the handler
FixResolves(r, text) ==
    /\ req[r].pc = "fixing"
    /\ LET p == StructuredParse(text)
       IN  Apply(r, IF p.ok
                    THEN Dispatch(req[r], <<Ev("fix:ok"), Ev("parse:ok")>>, p.value)
                    ELSE ProcessingFailed(req[r], <<Ev("fix:ok"), Ev("parse:err")>>,
                                          ParseError))
    /\ UNCHANGED <<last, vstr, vres, ui>>

FixRejects(r, e) ==
    /\ req[r].pc = "fixing"
    /\ Apply(r, ProcessingFailed(req[r], <<Ev("fix:err")>>, e))
    /\ UNCHANGED <<last, vstr, vres, ui>>

(***************************************************************************)
(* getBalanceWithRetry, continued: the awaited call or timer completes.    *)
(***************************************************************************)
\* faulty variant: the fetched balance is dropped
ReturnedZero(balance) == 0

\* return balance;
Returned(balance) == balance

\* getBalanceWithRetry returned `balance` to its call site
AfterGetBalance(q, evs, balance) ==
    CASE q.site = "balance" -> BalanceFetched(q, evs, balance)
      [] q.site = "initial" -> AfterInitialBalance(q, evs, balance)
      [] q.site = "new" -> AirdropSucceeded(q, evs, balance)
      [] OTHER -> NaturalBalanceFetched(q, evs, balance)

\* getBalanceWithRetry threw `e` to its call site
AfterGetBalanceThrew(q, evs, e) ==
    CASE q.site = "balance" -> BalanceFailed(q, evs, e)
      [] q.site \in {"initial", "new"} -> AirdropFailed(q, evs, e)
      [] OTHER -> NaturalBalanceFailed(q, evs, e)

GetBalanceResolves(r, v) ==
    /\ req[r].pc = "getBalance"
    /\ last' = [last EXCEPT ![r] = [ok |-> TRUE, val |-> v, err |-> NoError,
                                    reads |-> Append(@.reads, v)]]
    /\ Apply(r, AfterGetBalance(req[r], <<Ev("getBalance:ok"), Ev("return")>>,
                                Returned(v)))
    /\ UNCHANGED <<vstr, vres, ui>>

\* faulty variant: the last error is wrapped in a new one
RethrowWrapped(e) == [message |-> <<"RpcExhaustedError: ">> \o e.message]

\* throw error;
Rethrow(e) == e

\* faulty variant: no timer is set between two attempts
RetryDelayNone(evs) == evs

\* await new Promise(resolve => setTimeout(resolve, 1000));
RetryDelay(evs) == evs \o <<SetTimeout(RetryDelayMs)>>

GetBalanceRejects(r, e) ==
    /\ req[r].pc = "getBalance"
    /\ last' = [last EXCEPT ![r] = [ok |-> FALSE, val |-> 0, err |-> e,
                                    reads |-> @.reads]]
    /\ Apply(r, IF IsLastAttempt(req[r].i)
                THEN AfterGetBalanceThrew(req[r], <<Ev("getBalance:err"), Ev("throw")>>,
                                          Rethrow(e))
                ELSE Step([req[r] EXCEPT !.pc = "retryDelay"],
                          RetryDelay(<<Ev("getBalance:err")>>), <<>>))
    /\ UNCHANGED <<vstr, vres, ui>>

\* the 1 s timer fires: i++, and while i < maxRetries the next
\* connection.getBalance is issued.  Past the loop the function would
\* return undefined (written 0 here); IsLastAttempt makes that unreachable.
RetryDelayElapses(r) ==
    /\ req[r].pc = "retryDelay"
    /\ LET q == [req[r] EXCEPT !.i = @ + 1]
       IN  Apply(r, IF LoopContinues(q.i)
                    THEN Step([q EXCEPT !.pc = "getBalance"],
                              <<Timeout(RetryDelayMs), Ev("getBalance")>>, <<>>)
                    ELSE AfterGetBalance(q, <<Timeout(RetryDelayMs), Ev("return")>>, 0))
    /\ UNCHANGED <<last, vstr, vres, ui>>

(***************************************************************************)
(* Inputs.                                                                 *)
(***************************************************************************)
\* 32 x '1': the all-zero key                         (pattern yes, key yes)
Addr1 == Rep(49, 32)
\* 44 x 'A': a 32-byte key of maximal length          (pattern yes, key yes)
Addr2 == Rep(65, 44)
\* 44 x 'z': decodes to 33 bytes                      (pattern yes, key no)
Addr3 == Rep(122, 44)
\* 31 x '1' then 'O': a character outside base 58     (pattern no,  key no)
Addr4 == Rep(49, 31) \o <<79>>
\* 31 x '1': too short                                (pattern no,  key no)
Addr5 == Rep(49, 31)

AddrStrings == {Addr1, Addr2, Addr3, Addr4, Addr5}

\* req.params.publicKey is always a string
ParamKeys == {Str(s) : s \in AddrStrings}

\* req.body.publicKey is any JSON value or absent
BodyKeys == ParamKeys \cup {Undefined, Num(5)}

Amounts == {Undefined, Num(0), Num(1), Num(2)}

Queries == {Undefined, Str(<<>>), Str(<<98, 97, 108, 63>>)}

Actions == {"get_balance", "request_address", "transfer"}

LlmTexts ==
    {Malformed} \cup
    {WellFormed(a, k, n) : a \in Actions, k \in AddrStrings \cup {NoneStr},
                           n \in {"true", "false", "yes"}}

(***************************************************************************)
(* The chat widget (WalletChat): its state, handleSubmit and the fetch     *)
(* that handleSubmit awaits.                                               *)
(***************************************************************************)
\* a piece of displayed text: a literal of the source, or raw characters
Lit(s) == [lit |-> s, raw |-> <<>>]
Raw(c) == [lit |-> "", raw |-> c]

\* what String.prototype.trim strips (tab, LF, VT, FF, CR, space, NBSP)
WhiteSpace == {9, 10, 11, 12, 13, 32, 160}

\* faulty variant: nothing is stripped
TrimNone(s) == s

\* s.trim()
Trim(s) ==
    LET keep == {i \in 1..Len(s) : s[i] \notin WhiteSpace}
        first == CHOOSE i \in keep : \A j \in keep : i <= j
        final == CHOOSE i \in keep : \A j \in keep : j <= i
    IN  IF keep = {} THEN <<>> ELSE SubSeq(s, first, final)

\* s.slice(0, n) and s.slice(-n)
SliceHead(s, n) == SubSeq(s, 1, IF Len(s) < n THEN Len(s) ELSE n)
SliceTail(s, n) == SubSeq(s, IF Len(s) < n THEN 1 ELSE Len(s) - n + 1, Len(s))

\* en-US grouping of the digits of the whole part: a comma before every
\* group of three
RECURSIVE Grouped(_)
Grouped(d) ==
    IF Len(d) <= 3 THEN d
    ELSE Grouped(SubSeq(d, 1, Len(d) - 3)) \o <<44>> \o SubSeq(d, Len(d) - 2, Len(d))

\* the nine decimals of `nanos`, trailing zeros dropped down to `min` digits
RECURSIVE Decimals(_, _, _)
Decimals(nanos, width, min) ==
    IF width > min /\ nanos % 10 = 0
    THEN Decimals(nanos \div 10, width - 1, min)
    ELSE Rep(48, width - Len(DecimalDigits(nanos))) \o DecimalDigits(nanos)

\* Intl.NumberFormat('en-US', {minimumFractionDigits: 2,
\* maximumFractionDigits: 9}).format(balanceInSOL)
formatBalance(balanceInSOL) ==
    (IF balanceInSOL.neg THEN <<45>> ELSE <<>>)
        \o Grouped(DecimalDigits(balanceInSOL.whole))
        \o <<46>> \o Decimals(balanceInSOL.nanos, 9, 2)

\* the parsed body of a response, as handleSubmit reads it: status,
\* publicKey, balanceInSOL and message, each possibly absent
Data(status, publicKey, balanceInSOL, message) ==
    [status |-> status, publicKey |-> publicKey,
     balanceInSOL |-> balanceInSOL, message |-> message]

Greeting == [type |-> "bot", content |-> <<Lit("Hello! I can help you today?'")>>]

UserMessage(userMessage) == [type |-> "user", content |-> <<Raw(userMessage)>>]

BotMessage(content) == [type |-> "bot", content |-> content]

NeedsAddressText ==
    <<Lit("Please provide a Solana wallet address for me to check the balance.")>>

SuccessText(data) ==
    <<Lit("The wallet "), Raw(SliceHead(data.publicKey.s, 4)), Lit("..."),
      Raw(SliceTail(data.publicKey.s, 4)), Lit(" has a balance of "),
      Raw(formatBalance(data.balanceInSOL)), Lit(" SOL")>>

\* `Error: ${data.message || 'Something went wrong'}`
ErrorText(data) ==
    <<Lit("Error: ")>> \o
    (IF data.message = <<>> THEN <<Lit("Something went wrong")>>
     ELSE [i \in 1..Len(data.message) |-> Lit(data.message[i])])

FailureText == <<Lit("Sorry, I couldn't process your request. Please try again.")>>

\* useState initial values; pc: where handleSubmit is suspended
FreshUi ==
    [messages |-> <<Greeting>>, inputValue |-> <<>>, isLoading |-> FALSE,
     pc |-> "idle", userMessage |-> <<>>, sent |-> 0]

\* setMessages(prev => [...prev, message])
AppendMessage(u, message) == [u EXCEPT !.messages = Append(@, message)]

\* the catch block and the finally block
Caught(u) ==
    [AppendMessage(u, BotMessage(FailureText)) EXCEPT !.isLoading = FALSE, !.pc = "idle"]

\* the bot message for `data`, then the finally block; reading
\* data.publicKey.slice of an absent publicKey throws into the catch block
Answered(u, data) ==
    IF data.status = "needs_address"
    THEN [AppendMessage(u, BotMessage(NeedsAddressText))
            EXCEPT !.isLoading = FALSE, !.pc = "idle"]
    ELSE IF data.status = "success"
    THEN IF data.publicKey.t # "string" THEN Caught(u)
         ELSE [AppendMessage(u, BotMessage(SuccessText(data)))
                 EXCEPT !.isLoading = FALSE, !.pc = "idle"]
    ELSE [AppendMessage(u, BotMessage(ErrorText(data)))
            EXCEPT !.isLoading = FALSE, !.pc = "idle"]


(***************************************************************************)
(* The service.                                                            *)
(***************************************************************************)
InitOn(R) ==
    /\ req = [r \in R |-> FreshReq]
    /\ log = [r \in R |-> <<>>]
    /\ resp = [r \in R |-> <<>>]
    /\ last = [r \in R |-> NoAnswer]

Init ==
    /\ InitOn(Reqs)
    /\ vstr = <<>>
    /\ vres = "idle"
    /\ ui = FreshUi

Next ==
    \E r \in Reqs :
        \/ \E pk \in ParamKeys : ReceiveBalance(r, pk)
        \/ \E pk \in BodyKeys, amount \in Amounts : ReceiveAirdrop(r, pk, amount)
        \/ \E query \in Queries : ReceiveNatural(r, query)
        \/ \E v \in Balances : GetBalanceResolves(r, v)
        \/ \E e \in RemoteErrors : GetBalanceRejects(r, e)
        \/ RetryDelayElapses(r)
        \/ \E sig \in Signatures : RequestAirdropResolves(r, sig)
        \/ \E e \in RemoteErrors : RequestAirdropRejects(r, e)
        \/ \E err \in TxErrs \cup {NullErr} : ConfirmTransactionResolves(r, err)
        \/ \E e \in RemoteErrors : ConfirmTransactionRejects(r, e)
        \/ GraceDelayElapses(r)
        \/ \E text \in LlmTexts : InvokeResolves(r, text)
        \/ \E e \in RemoteErrors : InvokeRejects(r, e)
        \/ \E text \in LlmTexts : FixResolves(r, text)
        \/ \E e \in RemoteErrors : FixRejects(r, e)

Spec == Init /\ [][Next]_vars

(***************************************************************************)
(* The same system under the assumption that every remote call returns or  *)
(* fails and every timer fires: whatever request r is awaiting completes.  *)
(***************************************************************************)
Completes(r) ==
    \/ \E v \in Balances : GetBalanceResolves(r, v)
    \/ \E e \in RemoteErrors : GetBalanceRejects(r, e)
    \/ RetryDelayElapses(r)
    \/ \E sig \in Signatures : RequestAirdropResolves(r, sig)
    \/ \E e \in RemoteErrors : RequestAirdropRejects(r, e)
    \/ \E err \in TxErrs \cup {NullErr} : ConfirmTransactionResolves(r, err)
    \/ \E e \in RemoteErrors : ConfirmTransactionRejects(r, e)
    \/ GraceDelayElapses(r)
    \/ \E text \in LlmTexts : InvokeResolves(r, text)
    \/ \E e \in RemoteErrors : InvokeRejects(r, e)
    \/ \E text \in LlmTexts : FixResolves(r, text)
    \/ \E e \in RemoteErrors : FixRejects(r, e)

SpecLive == Init /\ [][Next]_vars /\ \A r \in Reqs : WF_vars(Completes(r))

(***************************************************************************)
(* The chat widget: its events.                                            *)
(***************************************************************************)
\* onChange of the input; the input is disabled while isLoading
onChange(value) ==
    /\ ~ui.isLoading
    /\ ui' = [ui EXCEPT !.inputValue = value]
    /\ UNCHANGED <<req, log, resp, last, vstr, vres>>

\* the form is submitted (input and button are disabled while isLoading):
\* handleSubmit up to its first await
handleSubmit ==
    /\ ~ui.isLoading
    /\ Len(ui.messages) < 1 + 2 * MaxSubmits
    /\ ui' = IF Trim(ui.inputValue) = <<>> THEN ui
             ELSE [AppendMessage(ui, UserMessage(ui.inputValue))
                     EXCEPT !.userMessage = ui.inputValue, !.inputValue = <<>>,
                            !.isLoading = TRUE, !.pc = "fetch", !.sent = @ + 1]
    /\ UNCHANGED <<req, log, resp, last, vstr, vres>>

\* fetch resolves with a response; response.json() is awaited
FetchResolves ==
    /\ ui.pc = "fetch"
    /\ ui' = [ui EXCEPT !.pc = "json"]
    /\ UNCHANGED <<req, log, resp, last, vstr, vres>>

FetchRejects ==
    /\ ui.pc = "fetch"
    /\ ui' = Caught(ui)
    /\ UNCHANGED <<req, log, resp, last, vstr, vres>>

JsonResolves(data) ==
    /\ ui.pc = "json"
    /\ ui' = Answered(ui, data)
    /\ UNCHANGED <<req, log, resp, last, vstr, vres>>

JsonRejects ==
    /\ ui.pc = "json"
    /\ ui' = Caught(ui)
    /\ UNCHANGED <<req, log, resp, last, vstr, vres>>

\* what the user may type: nothing, blanks only, text, text within blanks
InputValues ==
    {<<>>, <<32>>, <<9, 32>>, <<98, 97, 108, 63>>, <<32, 98, 97, 108, 32>>}

\* bodies the widget may receive: the three kinds the balance endpoint
\* sends, a success without publicKey, and an error without message
ResponseData ==
    {Data("needs_address", Undefined, lamportsToSol(0),
          <<"Please provide a Solana wallet address to check the balance">>),
     Data("success", Str(Addr2), lamportsToSol(LAMPORTS_PER_SOL + LAMPORTS_PER_SOL \div 2),
          <<"Balance fetched successfully">>),
     Data("success", Undefined, lamportsToSol(0), <<>>),
     Data("undefined", Undefined, lamportsToSol(0),
          <<"The provided address does not appear to be a valid Solana address">>),
     Data("undefined", Undefined, lamportsToSol(0), <<>>)}

InitWidget ==
    /\ InitOn(Reqs)
    /\ vstr = <<>>
    /\ vres = "idle"
    /\ ui = FreshUi

\* the pending fetch or body read of handleSubmit completes
FetchCompletes ==
    \/ FetchResolves
    \/ FetchRejects
    \/ \E data \in ResponseData : JsonResolves(data)
    \/ JsonRejects

NextWidget ==
    \/ \E value \in InputValues : onChange(value)
    \/ handleSubmit
    \/ FetchResolves
    \/ FetchRejects
    \/ \E data \in ResponseData : JsonResolves(data)
    \/ JsonRejects

\* the widget, every fetch eventually returning or failing
SpecWidget == InitWidget /\ [][NextWidget]_vars /\ WF_vars(FetchCompletes)

(***************************************************************************)
(* Two requests in flight at once, interleaved at their awaits.  Inputs    *)
(* are kept few: one valid and one invalid address, one amount, a whole    *)
(* and a fractional balance, one remote error.                             *)
(***************************************************************************)
PairReqs == {"r1", "r2"}

PairKeys == {Str(Addr1), Str(Addr5)}

PairBalances == {0, LAMPORTS_PER_SOL + LAMPORTS_PER_SOL \div 2}

PairErrors == {[message |-> <<"fetch failed">>]}

PairTexts ==
    {Malformed, WellFormed("get_balance", Addr1, "false"),
     WellFormed("get_balance", Addr5, "false")}

InitPair ==
    /\ InitOn(PairReqs)
    /\ vstr = <<>>
    /\ vres = "idle"
    /\ ui = FreshUi

NextPair ==
    \E r \in PairReqs :
        \/ \E pk \in PairKeys : ReceiveBalance(r, pk)
        \/ ReceiveAirdrop(r, Str(Addr1), Num(1))
        \/ ReceiveNatural(r, Str(<<98, 97, 108, 63>>))
        \/ \E v \in PairBalances : GetBalanceResolves(r, v)
        \/ \E e \in PairErrors : GetBalanceRejects(r, e)
        \/ RetryDelayElapses(r)
        \/ RequestAirdropResolves(r, "sig1")
        \/ \E e \in PairErrors : RequestAirdropRejects(r, e)
        \/ \E err \in {NullErr, "AccountInUse"} : ConfirmTransactionResolves(r, err)
        \/ \E e \in PairErrors : ConfirmTransactionRejects(r, e)
        \/ GraceDelayElapses(r)
        \/ \E text \in PairTexts : InvokeResolves(r, text)
        \/ \E e \in PairErrors : InvokeRejects(r, e)
        \/ \E text \in PairTexts : FixResolves(r, text)
        \/ \E e \in PairErrors : FixRejects(r, e)

SpecPair == InitPair /\ [][NextPair]_vars

(***************************************************************************)
(* The Address Validator on its own: every string of a family that covers  *)
(* each length 0..MaxStrLen and each character at the first, the middle    *)
(* and the last position.                                                  *)
(***************************************************************************)
FillChars == {49, 122}

\* newline, and the printable ASCII characters
TestChars == {10} \cup (32..126)

TestPositions(n) == {1, (n + 1) \div 2, n}

\* the strings of n characters f with one character replaced
OneOff(f, n) ==
    {[Rep(f, n) EXCEPT ![p] = c] : p \in TestPositions(n), c \in TestChars}

ValidatorInputs(maxLen) ==
    {Rep(f, n) : f \in FillChars, n \in 0..maxLen} \cup
    UNION {OneOff(f, n) : f \in FillChars, n \in 1..maxLen}

InitValidator ==
    /\ InitOn(Reqs)
    /\ vstr \in ValidatorInputs(MaxStrLen)
    /\ vres = "idle"
    /\ ui = FreshUi

Validate ==
    /\ vres = "idle"
    /\ vres' = IF isPotentiallySolanaAddress(Str(vstr)) THEN "true" ELSE "false"
    /\ UNCHANGED <<req, log, resp, last, vstr, ui>>

NextValidator == Validate

SpecValidator == InitValidator /\ [][NextValidator]_vars

(***************************************************************************)
(* Reading the log.                                                        *)
(***************************************************************************)
Count(l, name) == Cardinality({i \in 1..Len(l) : l[i].ev = name})

Has(l, name) == \E i \in 1..Len(l) : l[i].ev = name

IsPrefix(s, t) == Len(s) <= Len(t) /\ \A i \in 1..Len(s) : s[i] = t[i]

RpcCalls == {"getBalance", "requestAirdrop", "confirmTransaction"}

IssuedRpc(l) == \E i \in 1..Len(l) : l[i].ev \in RpcCalls

\* The latest invocation of getBalanceWithRetry in a log: from its entry to
\* its return or throw (or to the end of the log while it is running).
Invocation(l) ==
    LET entries == {i \in 1..Len(l) : l[i].ev = "getBalanceWithRetry"}
        first == CHOOSE i \in entries : \A j \in entries : j <= i
        exits == {i \in first..Len(l) : l[i].ev \in {"return", "throw"}}
        end == IF exits = {} THEN Len(l)
               ELSE CHOOSE i \in exits : \A j \in exits : i <= j
    IN  IF entries = {} THEN <<>> ELSE SubSeq(l, first, end)

\* k failed attempts, each followed by a wait of one second
RECURSIVE FailedRounds(_)
FailedRounds(k) ==
    IF k = 0 THEN <<>>
    ELSE FailedRounds(k - 1) \o
         <<Ev("getBalance"), Ev("getBalance:err"),
           [ev |-> "setTimeout", ms |-> 1000], [ev |-> "timeout", ms |-> 1000]>>

\* a completed invocation that failed k times and then succeeded
SucceededAfter(k) ==
    <<Ev("getBalanceWithRetry")>> \o FailedRounds(k) \o
    <<Ev("getBalance"), Ev("getBalance:ok"), Ev("return")>>

\* a completed invocation that failed on every one of its n attempts
FailedAfter(n) ==
    <<Ev("getBalanceWithRetry")>> \o FailedRounds(n - 1) \o
    <<Ev("getBalance"), Ev("getBalance:err"), Ev("throw")>>

\* the value the call site of the latest invocation received
Received(r) ==
    CASE req[r].site = "initial" -> req[r].initialBalance
      [] req[r].site = "new" -> req[r].newBalance
      [] OTHER -> resp[r][Len(resp[r])].body.balanceInLamports

(***************************************************************************)
(* C1: when the remote getBalance fails k times (k in 0..4) and then       *)
(* succeeds, getBalanceWithRetry returns the value of the successful       *)
(* attempt after exactly k+1 attempts and exactly k waits of one second,   *)
(* each wait between a failed attempt and the next one, and makes no       *)
(* further attempt.                                                        *)
(***************************************************************************)
C1_RetryThenSuccess ==
    \A r \in Reqs :
        LET t == Invocation(log[r])
        IN  /\ t # <<>> =>
                    IsPrefix(<<Ev("getBalanceWithRetry")>> \o
                             FailedRounds(Count(t, "timeout")), t)
            /\ (Has(t, "getBalance:ok") \/ Has(t, "return")) =>
                    /\ \E k \in 0..4 : t = SucceededAfter(k)
                    /\ Received(r) = last[r].val

\* four failures, then the fifth attempt succeeded and its value was returned
C1_Witness ==
    \E r \in Reqs :
        /\ Invocation(log[r]) = SucceededAfter(4)
        /\ last[r].ok
        /\ last[r].val > 0

(***************************************************************************)
(* C2: when every remote getBalance attempt fails, getBalanceWithRetry     *)
(* throws after exactly 5 attempts and 4 waits (no wait after the last     *)
(* failure), and what it throws is the error of the 5th attempt itself.    *)
(***************************************************************************)
C2_ExhaustedAfterFive ==
    \A r \in Reqs :
        LET t == Invocation(log[r])
        IN  /\ Count(t, "getBalance") <= 5
            /\ Count(t, "getBalance:err") = 5 => Has(t, "throw")
            /\ Has(t, "throw") =>
                    /\ t = FailedAfter(5)
                    /\ Count(t, "setTimeout") = 4
                    /\ ~last[r].ok
                    /\ req[r].error = last[r].err

\* all five attempts failed and the handler holds the fifth error
C2_Witness ==
    \E r \in Reqs :
        /\ Invocation(log[r]) = FailedAfter(5)
        /\ req[r].error = last[r].err
        /\ req[r].error \in RemoteErrors

(***************************************************************************)
(* The steps of one airdrop operation, as the log shows them: the log      *)
(* without what happens inside getBalanceWithRetry.                        *)
(***************************************************************************)
IsStepEvent(e) ==
    /\ e.ev \notin {"getBalance", "getBalance:ok", "getBalance:err"}
    /\ e.ms # 1000

Steps(l) == SelectSeq(l, IsStepEvent)

\* ReadInitial, Submit, Confirm, Settle (grace wait, re-fetch); Compute
\* follows the last return within the same step of the handler
AirdropSteps ==
    <<Ev("getBalanceWithRetry"), Ev("return"),
      Ev("requestAirdrop"), Ev("requestAirdrop:ok"),
      Ev("confirmTransaction"), Ev("confirmTransaction:ok"),
      [ev |-> "setTimeout", ms |-> 2000], [ev |-> "timeout", ms |-> 2000],
      Ev("getBalanceWithRetry"), Ev("return")>>

\* what the log shows instead of a step's success when the step fails
FailureOf(e) ==
    CASE e.ev = "return" -> {Ev("throw")}
      [] e.ev = "requestAirdrop:ok" -> {Ev("requestAirdrop:err")}
      [] e.ev = "confirmTransaction:ok" ->
            {Ev("confirmTransaction:err"), Ev("confirmTransaction:txerr")}
      [] OTHER -> {}

\* s is AirdropSteps up to some step, then that step's failure
FailedAtSomeStep(s) ==
    /\ Len(s) >= 1
    /\ Len(s) <= Len(AirdropSteps)
    /\ IsPrefix(SubSeq(s, 1, Len(s) - 1), AirdropSteps)
    /\ s[Len(s)] \in FailureOf(AirdropSteps[Len(s)])

SentOk(r) == \E i \in 1..Len(resp[r]) : resp[r][i].code = 200

(***************************************************************************)
(* C3: within one airdrop operation the steps run strictly in the order    *)
(* initial read, submission, confirmation, 2-second grace wait, balance    *)
(* re-fetch: none starts before the previous one has delivered its result  *)
(* and none is entered twice.                                              *)
(***************************************************************************)
C3_AirdropStepOrder ==
    \A r \in Reqs :
        req[r].kind = "airdrop" =>
            LET s == Steps(log[r])
            IN  /\ IsPrefix(s, AirdropSteps) \/ FailedAtSomeStep(s)
                /\ SentOk(r) => s = AirdropSteps

\* an airdrop that went through all its steps, with a retried balance read
C3_Witness ==
    \E r \in Reqs :
        /\ req[r].kind = "airdrop"
        /\ Steps(log[r]) = AirdropSteps
        /\ Has(log[r], "getBalance:err")
        /\ SentOk(r)

(***************************************************************************)
(* C4: when the confirmation result carries a transaction-level error,     *)
(* the airdrop fails with an error whose message embeds that error, and    *)
(* neither the grace wait nor the second balance read nor the delta        *)
(* computation takes place.                                                *)
(***************************************************************************)
C4_TxErrorAborts ==
    \A r \in Reqs :
        req[r].confirmationErr \in TxErrs =>
            /\ req[r].pc = "done"
            /\ resp[r] = <<[code |-> 500,
                           body |-> [error |-> "Airdrop failed",
                                     details |-> <<"Transaction confirmation failed: ",
                                                   "Transaction failed: ",
                                                   "\"" \o req[r].confirmationErr \o "\"">>]]>>
            /\ \A i \in 1..Len(log[r]) : log[r][i].ms # 2000
            /\ Count(log[r], "getBalanceWithRetry") = 1
            /\ last[r].reads = <<req[r].initialBalance>>

\* a submitted airdrop whose confirmation reported a transaction error
C4_Witness ==
    \E r \in Reqs :
        /\ req[r].confirmationErr = "AccountInUse"
        /\ req[r].signature \in Signatures
        /\ Len(resp[r]) = 1

(***************************************************************************)
(* C5: an airdrop result is sent only when the initial read, the           *)
(* submission, the confirmation (without transaction error) and the second *)
(* read all succeeded; after any failure the caller gets exactly one error  *)
(* response that carries no result field, and never a success.             *)
(***************************************************************************)
ResultFields ==
    {"publicKey", "signature", "requestedAmount", "initialBalanceSOL",
     "newBalanceSOL", "actualChangeSOL", "status"}

AirdropStepFailed(r) ==
    \/ Has(log[r], "throw")
    \/ Has(log[r], "requestAirdrop:err")
    \/ Has(log[r], "confirmTransaction:err")
    \/ Has(log[r], "confirmTransaction:txerr")

C5_ResultOnlyWhenAllSucceeded ==
    \A r \in Reqs :
        req[r].kind = "airdrop" =>
            /\ Len(resp[r]) <= 1
            /\ \A i \in 1..Len(resp[r]) :
                    IF resp[r][i].code = 200
                    THEN /\ Steps(log[r]) = AirdropSteps
                         /\ ~AirdropStepFailed(r)
                         /\ resp[r][i].body.status = "confirmed"
                         /\ resp[r][i].body.signature = req[r].signature
                    ELSE DOMAIN resp[r][i].body = {"error", "details"}
            /\ AirdropStepFailed(r) =>
                    /\ Len(resp[r]) = 1
                    /\ resp[r][1].code = 500
                    /\ DOMAIN resp[r][1].body \cap ResultFields = {}

\* an airdrop that failed after its signature was obtained
C5_Witness ==
    \E r \in Reqs :
        /\ req[r].kind = "airdrop"
        /\ req[r].signature \in Signatures
        /\ AirdropStepFailed(r)
        /\ Len(resp[r]) = 1
        /\ resp[r][1].code = 500

(***************************************************************************)
(* C6: for every successful airdrop the reported change is the balance of  *)
(* the second read minus the balance of the initial read, whatever amount  *)
(* was requested, and the status is "confirmed"; from 0 to one unit the    *)
(* change is exactly one unit.                                             *)
(***************************************************************************)
\* the lamports a reported SOL figure stands for
InLamports(sol) ==
    (IF sol.neg THEN 0 - 1 ELSE 1) * (sol.whole * 1000000000 + sol.nanos)

C6_DeltaIsDifferenceOfReads ==
    \A r \in Reqs :
        (req[r].kind = "airdrop" /\ SentOk(r)) =>
            LET b == resp[r][1].body
                reads == last[r].reads
            IN  /\ Len(reads) = 2
                /\ b.actualChangeSOL.nanos \in 0..999999999
                /\ InLamports(b.actualChangeSOL) = reads[2] - reads[1]
                /\ b.status = "confirmed"
                /\ (reads[1] = 0 /\ reads[2] = 1000000000) =>
                        b.actualChangeSOL = [neg |-> FALSE, whole |-> 1, nanos |-> 0]

\* 2 units requested, balance read 0 before and 1 unit after: change is 1 unit
C6_Witness ==
    \E r \in Reqs :
        /\ req[r].kind = "airdrop"
        /\ SentOk(r)
        /\ req[r].amount = Num(2)
        /\ last[r].reads = <<0, 1000000000>>
        /\ resp[r][1].body.actualChangeSOL.whole = 1

(***************************************************************************)
(* C7: whenever the extracted intent has needsAddress = "true", whatever   *)
(* its action and publicKey, the natural-language flow answers with status *)
(* "needs_address" and issues no ledger call.                              *)
(***************************************************************************)
C7_NeedsAddressNoRpc ==
    \A r \in Reqs :
        (req[r].kind = "natural" /\ Has(log[r], "parse:ok")
                /\ req[r].parsedResponse.needsAddress = "true") =>
            /\ Len(resp[r]) = 1
            /\ resp[r][1].code = 200
            /\ resp[r][1].body.status = "needs_address"
            /\ ~IssuedRpc(log[r])
            /\ ~Has(log[r], "getBalanceWithRetry")

\* needsAddress "true" together with a well-formed key and action get_balance
C7_Witness ==
    \E r \in Reqs :
        /\ req[r].kind = "natural"
        /\ req[r].parsedResponse = [action |-> "get_balance", publicKey |-> Addr1,
                                    needsAddress |-> "true"]
        /\ req[r].pc = "done"

(***************************************************************************)
(* C8: in every exposed operation (natural-language balance, REST balance, *)
(* REST airdrop) no ledger call is issued for an address that the Address  *)
(* Validator pattern does not accept.                                      *)
(***************************************************************************)
\* the address value the operation was given
GivenAddress(r) ==
    IF req[r].kind = "natural"
    THEN Str(req[r].parsedResponse.publicKey)
    ELSE req[r].publicKey

C8_NoRpcForUnacceptedAddress ==
    \A r \in Reqs :
        IssuedRpc(log[r]) => isPotentiallySolanaAddress(GivenAddress(r))

(***************************************************************************)
(* C9: the Address Validator returns true for a string exactly when its    *)
(* length is 32..44 and all its characters are base-58 characters (digits  *)
(* and letters without 0, O, I and l), and it changes nothing.             *)
(***************************************************************************)
Base58Alphabet ==
    ((48..57) \ {48}) \cup ((65..90) \ {73, 79}) \cup ((97..122) \ {108})

C9_ValidatorIff ==
    /\ vres \in {"idle", "true", "false"}
    /\ vres # "idle" =>
            (vres = "true") <=>
                /\ Len(vstr) >= 32
                /\ Len(vstr) <= 44
                /\ \A i \in 1..Len(vstr) : vstr[i] \in Base58Alphabet
    /\ req = [r \in Reqs |-> FreshReq]
    /\ resp = [r \in Reqs |-> <<>>]
    /\ log = [r \in Reqs |-> <<>>]

\* a string of maximal length was accepted
C9_Witness ==
    /\ vres = "true"
    /\ Len(vstr) = 44
    /\ vstr[44] = 57

(***************************************************************************)
(* C10: resolving one query calls the text-completion capability once when *)
(* its output parses and exactly once more, for repair, when it does not;  *)
(* never more than twice.  When a call fails or the repaired output does   *)
(* not parse either, the request ends with the processing-failure          *)
(* response, which differs from the missing-query and invalid-address      *)
(* responses, and no ledger call is issued.                                *)
(***************************************************************************)
ExtractionFailed(l) ==
    \/ Has(l, "invoke:err")
    \/ Has(l, "fix:err")
    \/ Count(l, "parse:err") = 2

C10_AtMostOneRepair ==
    \A r \in Reqs :
        req[r].kind = "natural" =>
            LET l == log[r]
            IN  /\ Count(l, "invoke") <= 1
                /\ Count(l, "invoke") + Count(l, "fix") <= 2
                /\ \A i \in 1..Len(l) :
                        l[i].ev = "invoke:ok" =>
                            /\ l[i + 1].ev = "parse:ok" => Count(l, "fix") = 0
                            /\ l[i + 1].ev = "parse:err" => Count(l, "fix") = 1
                /\ ExtractionFailed(l) =>
                        /\ Len(resp[r]) = 1
                        /\ resp[r][1].code = 500
                        /\ resp[r][1].body.error = "Processing failed"
                        /\ resp[r][1].body.error \notin
                                {"Missing query parameter", "Invalid address format"}
                        /\ ~IssuedRpc(l)

\* the first output did not parse and the repaired one did not either
C10_Witness ==
    \E r \in Reqs :
        /\ req[r].kind = "natural"
        /\ Count(log[r], "fix") = 1
        /\ Count(log[r], "parse:err") = 2
        /\ Len(resp[r]) = 1

(***************************************************************************)
(* C11: an intent whose action is neither get_balance nor request_address  *)
(* is invalid: the natural-language flow never fetches a balance and never *)
(* answers with a success for it, even with a well-formed publicKey and    *)
(* needsAddress "false".                                                   *)
(***************************************************************************)
RecognizedActions == {"get_balance", "request_address"}

C11_UnrecognizedActionRejected ==
    \A r \in Reqs :
        (req[r].kind = "natural" /\ Has(log[r], "parse:ok")
                /\ req[r].parsedResponse.action \notin RecognizedActions) =>
            /\ ~Has(log[r], "getBalance")
            /\ \A i \in 1..Len(resp[r]) :
                    ~(resp[r][i].code = 200 /\ resp[r][i].body.status = "success")

(***************************************************************************)
(* C13 (as claimed): whenever the extracted intent has needsAddress        *)
(* "false" and a publicKey accepted by the Address Validator, no error     *)
(* response is sent before a balance fetch was attempted, and once the     *)
(* remote getBalance succeeded the answer is "success" with that address   *)
(* and the lamports of the successful attempt.                             *)
(***************************************************************************)
\* the natural-language flow got an intent with needsAddress "false" and a
\* publicKey that the validator pattern accepts
AcceptedIntent(r) ==
    /\ req[r].kind = "natural"
    /\ Has(log[r], "parse:ok")
    /\ req[r].parsedResponse.needsAddress = "false"
    /\ RegexTest(req[r].parsedResponse.publicKey)

\* the answer is status "success" with the intent's address and the
\* lamports of the attempt that succeeded
AnsweredWithBalance(r) ==
    /\ Len(resp[r]) = 1
    /\ resp[r][1].code = 200
    /\ resp[r][1].body.status = "success"
    /\ resp[r][1].body.publicKey = req[r].parsedResponse.publicKey
    /\ resp[r][1].body.balanceInLamports = last[r].val

C13_AcceptedAddressIsFetched ==
    \A r \in Reqs :
        AcceptedIntent(r) =>
            /\ (resp[r] # <<>> /\ resp[r][1].code # 200) => Has(log[r], "getBalance")
            /\ last[r].ok => AnsweredWithBalance(r)

(***************************************************************************)
(* C13 (amended): the same for an accepted publicKey that is also the      *)
(* base-58 form of exactly 32 bytes: a balance fetch is always attempted   *)
(* and a succeeding getBalance yields "success" with that address and      *)
(* exactly the returned lamports.  An accepted publicKey that decodes to   *)
(* another number of bytes is answered 400 'Balance fetch failed' with no  *)
(* balance fetch at all.                                                   *)
(***************************************************************************)
C13_KeyAddressIsFetched ==
    \A r \in Reqs :
        AcceptedIntent(r) =>
            IF PublicKey(Str(req[r].parsedResponse.publicKey)).ok
            THEN /\ Has(log[r], "getBalance")
                 /\ last[r].ok => AnsweredWithBalance(r)
                 /\ (resp[r] # <<>> /\ resp[r][1].code = 200) => last[r].ok
            ELSE /\ ~IssuedRpc(log[r])
                 /\ Len(resp[r]) = 1
                 /\ resp[r][1].code = 400
                 /\ resp[r][1].body.error = "Balance fetch failed"

\* the third attempt succeeded with one SOL for a 44-character address
C13_Witness ==
    \E r \in Reqs :
        /\ AcceptedIntent(r)
        /\ req[r].parsedResponse.publicKey = Addr2
        /\ Invocation(log[r]) = SucceededAfter(2)
        /\ AnsweredWithBalance(r)
        /\ last[r].val = LAMPORTS_PER_SOL

(***************************************************************************)
(* C17: in the natural-language flow, an extracted publicKey that is       *)
(* present (not "none", needsAddress not "true") but does not match the    *)
(* Address Validator pattern is answered at once with the invalid-address  *)
(* error: no getBalance attempt, no retry wait, and never a success or a   *)
(* needs_address response.                                                 *)
(***************************************************************************)
\* the intent carries a publicKey and does not ask for one
PresentPublicKey(r) ==
    /\ req[r].kind = "natural"
    /\ Has(log[r], "parse:ok")
    /\ req[r].parsedResponse.needsAddress # "true"
    /\ req[r].parsedResponse.publicKey # NoneStr

C17_UnacceptedAddressRejectedAtOnce ==
    \A r \in Reqs :
        (PresentPublicKey(r) /\ ~RegexTest(req[r].parsedResponse.publicKey)) =>
            /\ req[r].pc = "done"
            /\ Len(resp[r]) = 1
            /\ resp[r][1].code = 400
            /\ resp[r][1].body.error = "Invalid address format"
            /\ ~Has(log[r], "getBalanceWithRetry")
            /\ ~IssuedRpc(log[r])
            /\ ~Has(log[r], "setTimeout")

\* a 32-character publicKey whose last character is the letter O
C17_Witness ==
    \E r \in Reqs :
        /\ PresentPublicKey(r)
        /\ req[r].parsedResponse.publicKey = Addr4
        /\ req[r].parsedResponse.needsAddress = "false"
        /\ resp[r] # <<>>
        /\ resp[r][1].body.error = "Invalid address format"

(***************************************************************************)
(* C18: the natural-language flow answers with status "needs_address" if   *)
(* and only if the extracted needsAddress is exactly "true" or the         *)
(* extracted publicKey is exactly "none"; in that case it does so at once, *)
(* with no ledger call and no balance fetch for whatever publicKey came    *)
(* along.  Any other spelling (such as "yes") does not count as asking.    *)
(***************************************************************************)
AnsweredNeedsAddress(r) ==
    \E i \in 1..Len(resp[r]) :
        resp[r][i].code = 200 /\ resp[r][i].body.status = "needs_address"

\* the extractor asks for an address: the exact strings of the schema
ExtractorAsks(r) ==
    /\ Has(log[r], "parse:ok")
    /\ \/ req[r].parsedResponse.needsAddress = "true"
       \/ req[r].parsedResponse.publicKey = <<110, 111, 110, 101>>

C18_NeedsAddressIff ==
    \A r \in Reqs :
        req[r].kind = "natural" =>
            /\ AnsweredNeedsAddress(r) <=> ExtractorAsks(r)
            /\ ExtractorAsks(r) =>
                    /\ req[r].pc = "done"
                    /\ Len(resp[r]) = 1
                    /\ ~IssuedRpc(log[r])
                    /\ ~Has(log[r], "getBalanceWithRetry")

\* no address found ('none') and needsAddress "false": the user is asked
C18_Witness ==
    \E r \in Reqs :
        /\ req[r].kind = "natural"
        /\ req[r].parsedResponse.publicKey = NoneStr
        /\ req[r].parsedResponse.needsAddress = "false"
        /\ AnsweredNeedsAddress(r)

(***************************************************************************)
(* C19: within one airdrop request requestAirdrop and confirmTransaction   *)
(* are each issued at most once (never retried), while balance reads may   *)
(* be retried; a request without publicKey or amount (amount 0 included)   *)
(* is answered 'Missing required parameters' before any remote call; and a *)
(* submission only ever follows an initial read that succeeded, so a       *)
(* request whose initial read used up its 5 attempts never submits.        *)
(***************************************************************************)
\* a field that is missing, empty or zero
AbsentValues == {Undefined, Str(<<>>), Num(0)}

C19_SubmitAndConfirmOnce ==
    \A r \in Reqs :
        req[r].kind = "airdrop" =>
            /\ Count(log[r], "requestAirdrop") <= 1
            /\ Count(log[r], "confirmTransaction") <= 1
            /\ Count(log[r], "getBalanceWithRetry") <= 2
            /\ (req[r].publicKey \in AbsentValues \/ req[r].amount \in AbsentValues) =>
                    /\ log[r] = <<>>
                    /\ Len(resp[r]) = 1
                    /\ resp[r][1].code = 400
                    /\ resp[r][1].body.error = "Missing required parameters"
            /\ Has(log[r], "requestAirdrop") =>
                    \E k \in 0..(maxRetries - 1) : IsPrefix(SucceededAfter(k), log[r])
            /\ IsPrefix(FailedAfter(maxRetries), log[r]) =>
                    /\ log[r] = FailedAfter(maxRetries)
                    /\ req[r].pc = "done"

\* amount 0 with a valid publicKey: rejected as missing
C19_Witness ==
    \E r \in Reqs :
        /\ req[r].kind = "airdrop"
        /\ req[r].publicKey = Str(Addr1)
        /\ req[r].amount = Num(0)
        /\ resp[r] # <<>>
        /\ resp[r][1].body.error = "Missing required parameters"

(***************************************************************************)
(* C14: provided every remote call returns or fails (and every timer       *)
(* fires), every request to the balance, airdrop and natural-language      *)
(* operations ends, and it sends exactly one response: none while it runs, *)
(* one when it has ended, never two; no balance fetch makes more than 5    *)
(* getBalance attempts.                                                    *)
(***************************************************************************)
OneResponseAtTheEnd ==
    \A r \in Reqs :
        /\ Len(resp[r]) = (IF req[r].pc = "done" THEN 1 ELSE 0)
        /\ Count(Invocation(log[r]), "getBalance") <= maxRetries

C14_EveryRequestAnswersOnce ==
    /\ []OneResponseAtTheEnd
    /\ \A r \in Reqs : (req[r].pc # "idle") ~> (req[r].pc = "done")

\* an airdrop that ended after both of its balance fetches needed all five
\* attempts
C14_Witness ==
    \E r \in Reqs :
        /\ req[r].kind = "airdrop"
        /\ req[r].pc = "done"
        /\ Len(resp[r]) = 1
        /\ Count(log[r], "getBalance") = 2 * maxRetries

(***************************************************************************)
(* C20: in the chat widget every submission of non-blank input appends     *)
(* exactly one user message and later exactly one bot message (reply,      *)
(* needs-address prompt, error text, or the generic failure text), in that *)
(* order; isLoading is true from the submission until the bot message is   *)
(* appended and false afterwards, on the success and on the failure path;  *)
(* a blank or whitespace-only submission changes neither the message list  *)
(* nor isLoading and sends no request.                                     *)
(***************************************************************************)
Blank(s) == \A i \in 1..Len(s) : s[i] \in {9, 10, 11, 12, 13, 32, 160}

\* after the greeting, user and bot messages alternate; a user message is
\* last exactly while its request is pending, and that is when isLoading
WidgetShape ==
    /\ ui.messages[1] = Greeting
    /\ \A i \in 2..Len(ui.messages) :
            ui.messages[i].type = (IF i % 2 = 0 THEN "user" ELSE "bot")
    /\ \A i \in 2..Len(ui.messages) :
            i % 2 = 0 => ~Blank(ui.messages[i].content[1].raw)
    /\ ui.isLoading <=> (Len(ui.messages) % 2 = 0)
    /\ ui.isLoading <=> (ui.pc # "idle")
    /\ ui.sent = Len(ui.messages) \div 2

\* a step appends at most one message and removes none; with blank input
\* no step changes the messages, isLoading or the requests sent
WidgetStep ==
    /\ Len(ui'.messages) <= Len(ui.messages) + 1
    /\ SubSeq(ui'.messages, 1, Len(ui.messages)) = ui.messages
    /\ (~ui.isLoading /\ Blank(ui.inputValue)) =>
            /\ ui'.messages = ui.messages
            /\ ui'.isLoading = ui.isLoading
            /\ ui'.sent = ui.sent

C20_OneUserThenOneBotMessage ==
    /\ []WidgetShape
    /\ [][WidgetStep]_vars
    /\ \A n \in 1..(2 * MaxSubmits) :
            (ui.isLoading /\ Len(ui.messages) = n)
                ~> (~ui.isLoading /\ Len(ui.messages) = n + 1)

\* two submissions: the first answered with a balance of 1.50 SOL, the
\* second with the generic failure text
C20_Witness ==
    /\ Len(ui.messages) = 5
    /\ ~ui.isLoading
    /\ ui.messages[2].content = <<Raw(<<32, 98, 97, 108, 32>>)>>
    /\ Len(ui.messages[3].content) = 7
    /\ ui.messages[3].content[2] = Raw(<<65, 65, 65, 65>>)
    /\ ui.messages[3].content[6] = Raw(<<49, 46, 53, 48>>)
    /\ ui.messages[5].content = FailureText
    /\ ui.sent = 2

(***************************************************************************)
(* C12: for every failed airdrop the error returned to the caller tells    *)
(* the failure class: a failure before a signature was obtained (initial   *)
(* balance read, submission: never submitted) is always distinguishable    *)
(* from a failure after submission (confirmation, transaction-level error, *)
(* balance read after confirmation).  Stated on two requests: whenever one *)
(* failed before and one after submission, their responses differ.         *)
(***************************************************************************)
FailedAirdrop(r) ==
    /\ req[r].kind = "airdrop"
    /\ Len(resp[r]) = 1
    /\ resp[r][1].code # 200

\* requestAirdrop returned a signature
Submitted(r) == Has(log[r], "requestAirdrop:ok")

C12_FailureClassDistinguishable ==
    \A r \in PairReqs, s \in PairReqs :
        (FailedAirdrop(r) /\ FailedAirdrop(s) /\ ~Submitted(r) /\ Submitted(s)) =>
            resp[r][1] # resp[s][1]

(***************************************************************************)
(* C15: requests interleaved at their awaits share no mutable state.  A    *)
(* step of one request changes nothing of any other request; the retry     *)
(* counter of a request counts its own attempts only, so every balance     *)
(* fetch ends after its own 1..5 attempts whatever the other request went  *)
(* through; and a request not yet received can always be received,         *)
(* whatever became of the other.                                           *)
(***************************************************************************)
Touched(r) ==
    \/ req'[r] # req[r]
    \/ log'[r] # log[r]
    \/ resp'[r] # resp[r]
    \/ last'[r] # last[r]

OneRequestPerStep ==
    \A r \in PairReqs : Touched(r) => \A s \in PairReqs \ {r} : ~Touched(s)

OwnRetryCounter ==
    \A r \in PairReqs :
        LET t == Invocation(log[r])
        IN  /\ req[r].pc \in {"getBalance", "retryDelay"} =>
                    Count(t, "getBalance") = req[r].i + 1
            /\ (t # <<>> /\ t[Len(t)].ev \in {"return", "throw"}) =>
                    \/ \E k \in 0..(maxRetries - 1) : t = SucceededAfter(k)
                    \/ t = FailedAfter(maxRetries)
            /\ Len(resp[r]) = (IF req[r].pc = "done" THEN 1 ELSE 0)

KeepsAccepting ==
    \A r \in PairReqs :
        req[r].pc = "idle" => ENABLED ReceiveBalance(r, Str(Addr1))

C15_RequestsAreIsolated ==
    /\ [](OwnRetryCounter /\ KeepsAccepting)
    /\ [][OneRequestPerStep]_vars

\* one request has failed after its five attempts while the other is
\* between its second and third attempt
C15_Witness ==
    \E r \in PairReqs, s \in PairReqs :
        /\ r # s
        /\ req[r].pc = "done"
        /\ log[r] = FailedAfter(maxRetries)
        /\ resp[r][1].code = 500
        /\ req[s].pc = "retryDelay"
        /\ req[s].i = 1

(***************************************************************************)
(* C16: the natural-language balance path and the REST balance path run    *)
(* the same balance operation: for the same address and the same sequence  *)
(* of getBalance outcomes both make the same attempts and waits, both      *)
(* report the same balanceInLamports and balanceInSOL on success, and both *)
(* fail in the same cases.                                                 *)
(***************************************************************************)
IsOutcome(e) == e.ev \in {"getBalance:ok", "getBalance:err"}

\* what the remote getBalance answered to a request, in order
Outcomes(r) == <<SelectSeq(log[r], IsOutcome), last[r]>>

\* request x is a finished REST balance request and y a finished
\* natural-language request resolved to the same address
SameBalanceQuery(x, y) ==
    /\ req[x].kind = "balance"
    /\ req[y].kind = "natural"
    /\ req[x].pc = "done"
    /\ req[y].pc = "done"
    /\ Has(log[y], "parse:ok")
    /\ req[y].parsedResponse.needsAddress # "true"
    /\ req[y].parsedResponse.publicKey # NoneStr
    /\ req[x].publicKey = Str(req[y].parsedResponse.publicKey)

C16_SameBalanceOperation ==
    \A x \in PairReqs, y \in PairReqs :
        (SameBalanceQuery(x, y) /\ Outcomes(x) = Outcomes(y)) =>
            /\ Invocation(log[x]) = Invocation(log[y])
            /\ Count(log[x], "getBalance") = Count(log[y], "getBalance")
            /\ Count(log[x], "setTimeout") = Count(log[y], "setTimeout")
            /\ (resp[x][1].code = 200) <=> (resp[y][1].code = 200)
            /\ resp[x][1].code = 200 =>
                    /\ resp[y][1].body.status = "success"
                    /\ resp[x][1].body.publicKey = resp[y][1].body.publicKey
                    /\ resp[x][1].body.balanceInLamports = resp[y][1].body.balanceInLamports
                    /\ resp[x][1].body.balanceInSOL = resp[y][1].body.balanceInSOL

\* both paths got one failure and then 1.5 SOL for the same address
C16_Witness ==
    \E x \in PairReqs, y \in PairReqs :
        /\ SameBalanceQuery(x, y)
        /\ Outcomes(x) = Outcomes(y)
        /\ Invocation(log[x]) = SucceededAfter(1)
        /\ resp[y][1].code = 200
        /\ resp[y][1].body.balanceInSOL = [neg |-> FALSE, whole |-> 1, nanos |-> 500000000]

====
